---- MODULE Spec2Model ----
\* Model of hesiod-go: Hesiod DNS name construction with realm redirection,
\* TXT resolution through the injected lookup capability, and service parsing.
\* Strings are sequences of one-character strings.
EXTENDS Integers, Sequences, FiniteSets, TLC

\* ---------------------------------------------------------------- bounds
MaxQLen == 4
MaxFields == 3
MaxRecords == 2

\* ---------------------------------------------------------------- literals
Dot == <<".">>
NS == <<".","n","s">>
AthenaRealm == <<".","a","t","h","e","n","a",".","m","i","t",".","e","d","u">>
AthenaConfig == [Nameserver |-> NS, Realm |-> AthenaRealm]
RhsExtension == <<"r","h","s","-","e","x","t","e","n","s","i","o","n">>
ServiceType == <<"s","e","r","v","i","c","e">>
Sloc == <<"s","l","o","c">>

\* An alternative configuration passed to NewHesiodWithConfig.
AltConfig == [Nameserver |-> <<".","n">>, Realm |-> <<".","z">>]
Configs == {AthenaConfig, AltConfig}

\* ---------------------------------------------------------------- errors
NoError == [cause |-> "nil", name |-> <<>>]
MockError(name) == [cause |-> "Mock resolver cannot find specified value", name |-> name]
ScanError(msg) == [cause |-> msg, name |-> <<>>]

\* ---------------------------------------------------------------- mock lookup
\* mockResolver: a static map from DNS name to record sequence; names absent
\* from the map (or mapped to NotFound) fail.
NotFound == <<"NOTFOUND">>
MockLookupTXT(mock, name) ==
  IF name \in DOMAIN mock /\ mock[name] # NotFound
  THEN [txt |-> mock[name], err |-> NoError]
  ELSE [txt |-> <<>>, err |-> MockError(name)]

\* ---------------------------------------------------------------- strings
Contains(s, c) == \E i \in 1..Len(s) : s[i] = c
FirstIndex(s, c) ==
  IF Contains(s, c) THEN CHOOSE i \in 1..Len(s) : s[i] = c /\ \A j \in 1..(i-1) : s[j] # c
  ELSE 0

\* strings.SplitN(question, "@", 2): the part before the first '@' and, when
\* there is one, the part after it.
SplitLocalBad(q) == IF FirstIndex(q, "@") = 0 THEN q ELSE SubSeq(q, 1, FirstIndex(q, "@"))
SplitLocal(q) == IF FirstIndex(q, "@") = 0 THEN q ELSE SubSeq(q, 1, FirstIndex(q, "@") - 1)
LastIndex(s, c) ==
  IF Contains(s, c) THEN CHOOSE i \in 1..Len(s) : s[i] = c /\ \A j \in (i+1)..Len(s) : s[j] # c
  ELSE 0
SplitRealmLast(q) == SubSeq(q, LastIndex(q, "@") + 1, Len(q))
SplitRealm(q) == SubSeq(q, FirstIndex(q, "@") + 1, Len(q))
SplitHasRealm(q) == FirstIndex(q, "@") # 0

\* ---------------------------------------------------------------- resolution
\* Result of prepareDNSName / Resolve.  kind is "ok", "err" or "panic" (the
\* runtime panic of an out-of-range index, which aborts the program).  sub*
\* describe the nested Resolve(realm, "rhs-extension") call, if any; depth is
\* the length of the chain of nested Resolve calls; lookups lists every name
\* passed to the lookup capability, in order.
MkRes(kind, dns, txt, err, lookups, depth, subCalled, subQ, subKind, subTxt, subErr, subLookups) ==
  [kind |-> kind, dns |-> dns, txt |-> txt, err |-> err, lookups |-> lookups,
   depth |-> depth, subCalled |-> subCalled, subQ |-> subQ, subKind |-> subKind,
   subTxt |-> subTxt, subErr |-> subErr, subLookups |-> subLookups]

NoRes == MkRes("none", <<>>, <<>>, NoError, <<>>, 0, FALSE, <<>>, "none", <<>>, NoError, <<>>)

\* dns = splitQuestion[0] + "." + queryType + hesiod.nameserver + realm
JoinNameBad(local, queryType, nameserver, realm) ==
  local \o queryType \o nameserver \o realm
JoinName(local, queryType, nameserver, realm) ==
  local \o Dot \o queryType \o nameserver \o realm

RECURSIVE prepareDNSName(_, _, _, _), Resolve(_, _, _, _)

prepareDNSName(mock, cfg, question, queryType) ==
  LET local == SplitLocal(question)
      realm == SplitRealm(question)
  IN IF ~SplitHasRealm(question)
     THEN MkRes("ok", JoinName(local, queryType, cfg.Nameserver, cfg.Realm),
                <<>>, NoError, <<>>, 0, FALSE, <<>>, "none", <<>>, NoError, <<>>)
     ELSE IF Contains(realm, ".")
     THEN MkRes("ok", JoinName(local, queryType, cfg.Nameserver, Dot \o realm),
                <<>>, NoError, <<>>, 0, FALSE, <<>>, "none", <<>>, NoError, <<>>)
     ELSE LET s == Resolve(mock, cfg, realm, RhsExtension)
          IN IF s.kind = "panic"
             THEN MkRes("panic", <<>>, <<>>, NoError, s.lookups, 1 + s.depth,
                        TRUE, realm, s.kind, s.txt, s.err, s.lookups)
             ELSE IF s.err # NoError
             THEN MkRes("err", <<>>, <<>>, s.err, s.lookups, 1 + s.depth,
                        TRUE, realm, s.kind, s.txt, s.err, s.lookups)
             ELSE IF Len(s.txt) = 0
             \* realm = candidates[0] on an empty slice: index out of range
             THEN MkRes("panic", <<>>, <<>>, NoError, s.lookups, 1 + s.depth,
                        TRUE, realm, s.kind, s.txt, s.err, s.lookups)
             ELSE MkRes("ok", JoinName(local, queryType, cfg.Nameserver, Dot \o s.txt[1]),
                        <<>>, NoError, s.lookups, 1 + s.depth,
                        TRUE, realm, s.kind, s.txt, s.err, s.lookups)

\* txt, err = hesiod.lookup.LookupTXT(dns); return
ResolveResultReversed(p, a) ==
  [p EXCEPT !.kind = IF a.err = NoError THEN "ok" ELSE "err",
            !.txt = [i \in 1..Len(a.txt) |-> a.txt[Len(a.txt) + 1 - i]], !.err = a.err,
            !.lookups = p.lookups \o <<p.dns>>]
ResolveResultDedup(p, a) ==
  [p EXCEPT !.kind = IF a.err = NoError THEN "ok" ELSE "err",
            !.txt = SelectSeq(a.txt, LAMBDA x : x # a.txt[1]) \o (IF a.txt = <<>> THEN <<>> ELSE <<a.txt[1]>>),
            !.err = a.err,
            !.lookups = p.lookups \o <<p.dns>>]
ResolveResultSwallow(p, a) ==
  [p EXCEPT !.kind = "ok", !.txt = a.txt, !.err = NoError,
            !.lookups = p.lookups \o <<p.dns>>]
ResolveResult(p, a) ==
  [p EXCEPT !.kind = IF a.err = NoError THEN "ok" ELSE "err",
            !.txt = a.txt, !.err = a.err,
            !.lookups = p.lookups \o <<p.dns>>]

Resolve(mock, cfg, question, queryType) ==
  LET p == prepareDNSName(mock, cfg, question, queryType)
  IN IF p.kind # "ok"
     THEN p
     ELSE ResolveResult(p, MockLookupTXT(mock, p.dns))

\* ---------------------------------------------------------------- name spec
QChars == {"z", "@", "."}
Questions == UNION {[1..n -> QChars] : n \in 0..MaxQLen}
QueryTypes == {Sloc, RhsExtension}

\* Realm candidates returned by rhs-extension answers.
CandA == <<"z",".","z">>
CandB == <<"z">>
Answers == {NotFound, <<>>, <<CandA, CandA, CandB>>}
KeyUniverse == {
  <<"z">> \o Dot \o Sloc \o NS \o AthenaRealm,
  <<"z">> \o Dot \o RhsExtension \o NS \o AthenaRealm,
  <<"z">> \o Dot \o Sloc \o NS \o Dot \o CandA,
  Dot \o RhsExtension \o NS \o AthenaRealm }

VARIABLES config, mock, op, arg1, arg2, out
vars == <<config, mock, op, arg1, arg2, out>>

Init ==
  /\ config \in Configs
  /\ mock \in [KeyUniverse -> Answers]
  /\ op = "none"
  /\ arg1 = <<>>
  /\ arg2 = <<>>
  /\ out = NoRes

CallPrepareDNSName ==
  \E q \in Questions, t \in QueryTypes :
    /\ op = "none"
    /\ op' = "prepare"
    /\ arg1' = q
    /\ arg2' = t
    /\ out' = prepareDNSName(mock, config, q, t)
    /\ UNCHANGED <<config, mock>>

CallResolve ==
  \E q \in Questions, t \in QueryTypes :
    /\ op = "none"
    /\ op' = "resolve"
    /\ arg1' = q
    /\ arg2' = t
    /\ out' = Resolve(mock, config, q, t)
    /\ UNCHANGED <<config, mock>>

Next == CallPrepareDNSName \/ CallResolve

Spec == Init /\ [][Next]_vars

\* ---------------------------------------------------------------- service
\* fmt.Sscanf(candidate, "%s %s %d", &resolvedService, &protocol, &port):
\* the blanks of the format go through advance() (see Advance); every verb
\* first runs SkipSpace, which skips Go white space (isSpace: space,
\* tab, CR, FF, ... ) and fails with "unexpected newline" on a newline; then
\* notEOF fails at end of input (io.EOF when nothing has been scanned yet,
\* io.ErrUnexpectedEOF afterwards).  %s reads a run of non-space characters
\* (a newline ends it); %d accepts an optional sign and then needs at least one
\* decimal digit, reads the digits and stops at the first non-digit, and
\* strconv.ParseInt(tok, 10, 64) rejects values outside int64.  Text after the
\* last verb is ignored.
Digits == {"0", "1", "2", "3", "4", "5", "6", "7", "8", "9"}
DigitValue(c) == CHOOSE v \in 0..9 : <<"0","1","2","3","4","5","6","7","8","9">>[v + 1] = c
\* Go white space that can occur in the records (isSpace also has VT, U+0085,
\* U+00A0 and the Unicode spaces, which TLA+ strings cannot spell).
SpaceChars == {" ", "\t", "\r", "\f"}
Newline == "\n"

RECURSIVE SkipSpaces(_, _)
SkipSpaces(r, i) == IF i <= Len(r) /\ r[i] \in SpaceChars THEN SkipSpaces(r, i + 1) ELSE i

RECURSIVE RunEnd(_, _, _)
\* First index at or after i whose character is not in set cs (or Len(r) + 1).
RunEnd(r, i, cs) == IF i <= Len(r) /\ r[i] \in cs THEN RunEnd(r, i + 1, cs) ELSE i

NonSpace(r) == {r[k] : k \in 1..Len(r)} \ (SpaceChars \cup {Newline})

RECURSIVE Numeral(_)
Numeral(ds) == IF ds = <<>> THEN 0 ELSE 10 * Numeral(SubSeq(ds, 1, Len(ds) - 1)) + DigitValue(ds[Len(ds)])

RECURSIVE StripZeros(_)
StripZeros(ds) == IF ds # <<>> /\ ds[1] = "0" THEN StripZeros(Tail(ds)) ELSE ds
MaxInt64Digits == <<"9","2","2","3","3","7","2","0","3","6","8","5","4","7","7","5","8","0","7">>
MinInt64Digits == <<"9","2","2","3","3","7","2","0","3","6","8","5","4","7","7","5","8","0","8">>
\* Digit string ds (equal length to lim) is greater than lim.
DigitsGreater(ds, lim) ==
  \E i \in 1..Len(lim) : (\A j \in 1..(i-1) : ds[j] = lim[j]) /\ DigitValue(ds[i]) > DigitValue(lim[i])
\* strconv.ParseInt(tok, 10, 64) range check on the digits of tok.
OutOfRange(ds, negative) ==
  LET d == StripZeros(ds)
      lim == IF negative THEN MinInt64Digits ELSE MaxInt64Digits
  IN Len(d) > Len(lim) \/ (Len(d) = Len(lim) /\ DigitsGreater(d, lim))

EOFError(first) == IF first THEN ScanError("EOF") ELSE ScanError("unexpected EOF")
NewlineError == ScanError("unexpected newline")
ExpectedIntegerError == ScanError("expected integer")
RangeError == ScanError("value out of range")
FormatNewlineError == ScanError("newline in input does not match format")
ExpectedSpaceError == ScanError("expected space in input to match format")

\* advance() on a lone blank of the format: the next input character must be
\* a space (or end of input) and not a newline; then spaces other than
\* newlines are consumed.
Advance(r, i) ==
  IF i > Len(r) THEN [err |-> NoError, next |-> i]
  ELSE IF r[i] = Newline THEN [err |-> FormatNewlineError, next |-> i]
  ELSE IF r[i] \notin SpaceChars THEN [err |-> ExpectedSpaceError, next |-> i]
  ELSE [err |-> NoError, next |-> SkipSpaces(r, i)]

\* %s: SkipSpace, notEOF, token(true, notSpace)
ScanString(r, i, first) ==
  LET j == SkipSpaces(r, i)
  IN IF j > Len(r) THEN [err |-> EOFError(first), val |-> <<>>, next |-> j]
     ELSE IF r[j] = Newline THEN [err |-> NewlineError, val |-> <<>>, next |-> j]
     ELSE [err |-> NoError, val |-> SubSeq(r, j, RunEnd(r, j, NonSpace(r)) - 1),
           next |-> RunEnd(r, j, NonSpace(r))]

\* %d: SkipSpace, notEOF, accept(sign), scanNumber (notEOF, at least one
\* decimal digit), ParseInt
ScanInt(r, i, first) ==
  LET j == SkipSpaces(r, i)
      k == IF j <= Len(r) /\ r[j] \in {"+", "-"} THEN j + 1 ELSE j
      e == RunEnd(r, k, Digits)
      neg == j <= Len(r) /\ r[j] = "-"
  IN IF j > Len(r) THEN [err |-> EOFError(first), val |-> 0, next |-> j]
     ELSE IF r[j] = Newline THEN [err |-> NewlineError, val |-> 0, next |-> j]
     ELSE IF k > Len(r) THEN [err |-> EOFError(first), val |-> 0, next |-> k]
     ELSE IF e = k THEN [err |-> ExpectedIntegerError, val |-> 0, next |-> k]
     ELSE IF OutOfRange(SubSeq(r, k, e - 1), neg) THEN [err |-> RangeError, val |-> 0, next |-> e]
     ELSE [err |-> NoError, val |-> (IF neg THEN -1 ELSE 1) * Numeral(SubSeq(r, k, e - 1)), next |-> e]

Sscanf(r) ==
  LET a == ScanString(r, 1, TRUE)
      s1 == Advance(r, a.next)
      b == ScanString(r, s1.next, FALSE)
      s2 == Advance(r, b.next)
      c == ScanInt(r, s2.next, FALSE)
  IN IF a.err # NoError THEN [err |-> a.err, service |-> <<>>, protocol |-> <<>>, port |-> 0]
     ELSE IF s1.err # NoError THEN [err |-> s1.err, service |-> a.val, protocol |-> <<>>, port |-> 0]
     ELSE IF b.err # NoError THEN [err |-> b.err, service |-> a.val, protocol |-> <<>>, port |-> 0]
     ELSE IF s2.err # NoError THEN [err |-> s2.err, service |-> a.val, protocol |-> b.val, port |-> 0]
     ELSE [err |-> c.err, service |-> a.val, protocol |-> b.val, port |-> c.val]

ZeroEntry == [ServiceName |-> <<>>, Port |-> 0, Protocol |-> <<>>]

Min(S) == CHOOSE x \in S : \A y \in S : x <= y

\* for _, candidate := range candidates { Sscanf; if err return; if protocol
\* != proto continue; set result; return }; return
ScanCandidatesLastMatch(cands, proto, err0) ==
  LET stops == {i \in 1..Len(cands) : Sscanf(cands[i]).err # NoError \/ Sscanf(cands[i]).protocol = proto}
      errs == {i \in 1..Len(cands) : Sscanf(cands[i]).err # NoError}
      i == IF errs # {} THEN Min(errs) ELSE CHOOSE x \in stops : \A y \in stops : x >= y
  IN IF stops = {} THEN [result |-> ZeroEntry, err |-> IF Len(cands) = 0 THEN err0 ELSE NoError]
     ELSE IF Sscanf(cands[i]).err # NoError THEN [result |-> ZeroEntry, err |-> Sscanf(cands[i]).err]
     ELSE [result |-> [ServiceName |-> Sscanf(cands[i]).service, Port |-> Sscanf(cands[i]).port,
                       Protocol |-> Sscanf(cands[i]).protocol], err |-> NoError]
ScanCandidatesStopAtMismatch(cands, proto, err0) ==
  LET i == 1
  IN IF Len(cands) = 0 THEN [result |-> ZeroEntry, err |-> err0]
     ELSE IF Sscanf(cands[i]).err # NoError THEN [result |-> ZeroEntry, err |-> Sscanf(cands[i]).err]
     ELSE IF Sscanf(cands[i]).protocol # proto THEN [result |-> ZeroEntry, err |-> NoError]
     ELSE [result |-> [ServiceName |-> Sscanf(cands[i]).service, Port |-> Sscanf(cands[i]).port,
                       Protocol |-> Sscanf(cands[i]).protocol], err |-> NoError]
ScanCandidatesSkipMalformed(cands, proto, err0) ==
  LET stops == {i \in 1..Len(cands) : Sscanf(cands[i]).err = NoError /\ Sscanf(cands[i]).protocol = proto}
  IN IF stops = {} THEN [result |-> ZeroEntry, err |-> IF Len(cands) = 0 THEN err0 ELSE NoError]
     ELSE [result |-> [ServiceName |-> Sscanf(cands[Min(stops)]).service, Port |-> Sscanf(cands[Min(stops)]).port,
                       Protocol |-> Sscanf(cands[Min(stops)]).protocol], err |-> NoError]
ScanCandidatesNotFoundError(cands, proto, err0) ==
  LET stops == {i \in 1..Len(cands) : Sscanf(cands[i]).err # NoError \/ Sscanf(cands[i]).protocol = proto}
      i == Min(stops)
  IN IF stops = {} THEN [result |-> ZeroEntry, err |-> IF Len(cands) = 0 /\ err0 # NoError THEN err0 ELSE ScanError("no match")]
     ELSE IF Sscanf(cands[i]).err # NoError THEN [result |-> ZeroEntry, err |-> Sscanf(cands[i]).err]
     ELSE [result |-> [ServiceName |-> Sscanf(cands[i]).service, Port |-> Sscanf(cands[i]).port,
                       Protocol |-> Sscanf(cands[i]).protocol], err |-> NoError]
ScanCandidates(cands, proto, err0) ==
  LET stops == {i \in 1..Len(cands) : Sscanf(cands[i]).err # NoError \/ Sscanf(cands[i]).protocol = proto}
      i == Min(stops)
  IN IF stops = {} THEN [result |-> ZeroEntry, err |-> IF Len(cands) = 0 THEN err0 ELSE NoError]
     ELSE IF Sscanf(cands[i]).err # NoError THEN [result |-> ZeroEntry, err |-> Sscanf(cands[i]).err]
     ELSE [result |-> [ServiceName |-> Sscanf(cands[i]).service, Port |-> Sscanf(cands[i]).port,
                       Protocol |-> Sscanf(cands[i]).protocol], err |-> NoError]

GetServiceByName(lookup, cfg, service, proto) ==
  LET r == Resolve(lookup, cfg, service, ServiceType)
  IN IF r.kind = "panic" THEN [kind |-> "panic", result |-> ZeroEntry, err |-> NoError]
     ELSE LET s == ScanCandidates(r.txt, proto, r.err)
          IN [kind |-> IF s.err = NoError THEN "ok" ELSE "err", result |-> s.result, err |-> s.err]

NoSvc == [kind |-> "none", result |-> ZeroEntry, err |-> NoError]

\* Service records: space-separated fields, the first being the service name.
RECURSIVE JoinFields(_)
JoinFields(fs) == IF Len(fs) <= 1 THEN (IF fs = <<>> THEN <<>> ELSE fs[1])
                  ELSE fs[1] \o <<" ">> \o JoinFields(Tail(fs))
RecordFields == {<<"u">>, <<"1">>, <<"1", "u">>}
Records ==
  {<<>>} \cup {<<"u", " ", "u", " ", "1", " ", "u">>} \cup
  {<<"v", " ", "u", " ", "1", "1">>, <<"u", "\t", "u", "\t", "1">>, <<"u", "\n", "u", " ", "1">>,
   <<"u", " ", "u", " ">> \o [k \in 1..20 |-> "9"]} \cup
  {JoinFields(<<<<"u">>>> \o fs) : fs \in UNION {[1..n -> RecordFields] : n \in 0..(MaxFields - 1)}}
RecordLists == UNION {[1..n -> Records] : n \in 0..MaxRecords}
Protos == {<<"u">>, <<"1">>}
ServiceQuestion == <<"z">>
ServiceKey == ServiceQuestion \o Dot \o ServiceType \o NS \o AthenaRealm

ServiceInit ==
  /\ config = AthenaConfig
  /\ mock \in [{ServiceKey} -> {NotFound} \cup RecordLists]
  /\ op = "none"
  /\ arg1 = <<>>
  /\ arg2 = <<>>
  /\ out = NoSvc

CallGetServiceByName ==
  \E p \in Protos :
    /\ op = "none"
    /\ op' = "service"
    /\ arg1' = ServiceQuestion
    /\ arg2' = p
    /\ out' = GetServiceByName(mock, config, ServiceQuestion, p)
    /\ UNCHANGED <<config, mock>>

ServiceNext == CallGetServiceByName

ServiceSpec == ServiceInit /\ [][ServiceNext]_vars

\* ---------------------------------------------------------------- properties
\* i is the position of the first '@' of q.
FirstAtAt(q, i) == q[i] = "@" /\ \A j \in 1..(i-1) : q[j] # "@"
HasDotAfter(q, i) == \E k \in (i+1)..Len(q) : q[k] = "."
NoAt(q) == \A i \in 1..Len(q) : q[i] # "@"
Occurrences(s, x) == Cardinality({i \in 1..Len(s) : s[i] = x})

\* C1: for a question with no '@', prepareDNSName succeeds without any lookup
\* and returns question + "." + queryType + nameserver + realm suffix.
C1_PrepareNoRealm ==
  (op = "prepare" /\ NoAt(arg1)) =>
    /\ out.kind = "ok" /\ out.err = NoError /\ out.lookups = <<>>
    /\ out.dns = arg1 \o <<".">> \o arg2 \o config.Nameserver \o config.Realm
C1_Witness ==
  op = "prepare" /\ arg1 = <<"z">> /\ arg2 = Sloc /\ config = AthenaConfig /\ out.kind = "ok"

\* C2: for localPart@realm split at the first '@' with a '.' in realm,
\* prepareDNSName performs no lookup and returns
\* localPart + "." + queryType + nameserver + "." + realm.
C2_PrepareQualifiedRealm ==
  \A i \in 1..Len(arg1) :
    (op = "prepare" /\ FirstAtAt(arg1, i) /\ HasDotAfter(arg1, i)) =>
      /\ out.kind = "ok" /\ out.err = NoError /\ out.lookups = <<>>
      /\ out.dns = SubSeq(arg1, 1, i - 1) \o <<".">> \o arg2 \o config.Nameserver
                   \o <<".">> \o SubSeq(arg1, i + 1, Len(arg1))
C2_Witness ==
  op = "prepare" /\ arg1 = <<"z", "@", ".", "@">> /\ out.kind = "ok"

\* C3: for a symbolic realm (no '.'), prepareDNSName (and Resolve) first call
\* Resolve(realm, "rhs-extension"); if it fails they fail with that error and
\* look up nothing else; otherwise the name is composed from candidates[0].
C3_SymbolicRealm ==
  \A i \in 1..Len(arg1) :
    (op \in {"prepare", "resolve"} /\ FirstAtAt(arg1, i) /\ ~HasDotAfter(arg1, i)) =>
      /\ out.subCalled
      /\ out.subQ = SubSeq(arg1, i + 1, Len(arg1))
      /\ out.subKind = "err" =>
           (out.kind = "err" /\ out.err = out.subErr /\ out.lookups = out.subLookups)
      /\ out.subKind = "ok" =>
           (/\ out.kind # "panic"
            /\ out.dns = SubSeq(arg1, 1, i - 1) \o <<".">> \o arg2 \o config.Nameserver
                         \o <<".">> \o out.subTxt[1])

\* C4: when the lookup of the composed name succeeds, Resolve returns exactly
\* the looked-up sequence, in order, with a nil error.
C4_ResolveReturnsRecords ==
  (op = "resolve" /\ Len(out.dns) > 0 /\ MockLookupTXT(mock, out.dns).err = NoError) =>
    /\ out.kind = "ok" /\ out.err = NoError
    /\ out.txt = mock[out.dns]
    /\ out.lookups[Len(out.lookups)] = out.dns
C4_Witness ==
  op = "resolve" /\ out.kind = "ok" /\ Len(out.txt) = 3
  /\ out.txt[1] = out.txt[2] /\ out.txt[2] # out.txt[3]

\* C5: when the lookup of the composed name fails, Resolve fails with that
\* error and looks the name up exactly once.
C5_ResolveLookupError ==
  (op = "resolve" /\ Len(out.dns) > 0 /\ MockLookupTXT(mock, out.dns).err # NoError) =>
    /\ out.kind = "err"
    /\ out.err = MockLookupTXT(mock, out.dns).err
    /\ Occurrences(out.lookups, out.dns) = 1
C5_Witness ==
  op = "resolve" /\ out.kind = "err" /\ Len(out.dns) > 0 /\ arg1 = <<"z">>

\* C9 (as stated): one Resolve call triggers at most one nested Resolve call.
C9_AtMostOneLevel ==
  op = "resolve" => out.depth <= 1
\* C9 (amended): the chain of nested Resolve(..., "rhs-extension") calls is no
\* longer than the number of '@' in the question, and the first nested call
\* resolves the text after the first '@'.
C9_DepthBoundedByAts ==
  op \in {"prepare", "resolve"} =>
    /\ out.depth <= Occurrences(arg1, "@")
    /\ \A i \in 1..Len(arg1) :
         (FirstAtAt(arg1, i) /\ out.subCalled) => out.subQ = SubSeq(arg1, i + 1, Len(arg1))
C9_Witness ==
  op = "resolve" /\ out.depth = 2

\* C10: an empty rhs-extension answer never makes Resolve abort the program.
C10_NoPanic ==
  op \in {"prepare", "resolve"} => out.kind # "panic"

\* Blank-separated words of a record (a newline is not a separator), and the
\* record shapes the claims talk about.
Blanks == {" ", "\t", "\r", "\f"}
NonBlank(r) == {r[k] : k \in 1..Len(r)} \ Blanks
RECURSIVE Words(_)
Words(r) ==
  IF r = <<>> THEN <<>>
  ELSE IF r[1] \in Blanks THEN Words(Tail(r))
  ELSE LET e == RunEnd(r, 1, NonBlank(r))
       IN <<SubSeq(r, 1, e - 1)>> \o Words(SubSeq(r, e, Len(r)))
AllDigits(w) == Len(w) > 0 /\ \A k \in 1..Len(w) : w[k] \in Digits
NoNewline(w) == \A k \in 1..Len(w) : w[k] # "\n"
\* exactly "<serviceName> <protocol> <port>" on one line, the port a decimal
\* integer that fits Go's (64-bit) int
WellFormed(r) ==
  /\ Len(Words(r)) = 3
  /\ \A k \in 1..3 : NoNewline(Words(r)[k])
  /\ AllDigits(Words(r)[3]) /\ ~OutOfRange(Words(r)[3], FALSE)
\* the leading digits of a word after an optional sign
SignLen(w) == IF Len(w) >= 1 /\ w[1] \in {"+", "-"} THEN 1 ELSE 0
LeadDigits(w) == SubSeq(w, SignLen(w) + 1, RunEnd(w, SignLen(w) + 1, Digits) - 1)
\* at least three words, the first two without a newline, the third starting
\* with an optionally signed decimal integer that fits in int64
Scannable(r) ==
  /\ Len(Words(r)) >= 3
  /\ NoNewline(Words(r)[1]) /\ NoNewline(Words(r)[2])
  /\ Len(LeadDigits(Words(r)[3])) > 0
  /\ ~OutOfRange(LeadDigits(Words(r)[3]), SignLen(Words(r)[3]) = 1 /\ Words(r)[3][1] = "-")
ServiceRecords == IF mock[ServiceKey] = NotFound THEN <<>> ELSE mock[ServiceKey]
ServiceResolved == op = "service" /\ mock[ServiceKey] # NotFound

\* C6: the first well-formed record with the requested protocol, all earlier
\* records being well-formed with another protocol, is the result (nil error).
C6_FirstMatchWins ==
  \A i \in 1..Len(ServiceRecords) :
    (/\ ServiceResolved
     /\ WellFormed(ServiceRecords[i]) /\ Words(ServiceRecords[i])[2] = arg2
     /\ \A j \in 1..(i-1) : WellFormed(ServiceRecords[j]) /\ Words(ServiceRecords[j])[2] # arg2)
    => /\ out.err = NoError
       /\ out.result = [ServiceName |-> Words(ServiceRecords[i])[1],
                        Protocol |-> arg2,
                        Port |-> Numeral(Words(ServiceRecords[i])[3])]
C6_Witness ==
  /\ ServiceResolved /\ Len(ServiceRecords) = 2
  /\ WellFormed(ServiceRecords[1]) /\ Words(ServiceRecords[1])[2] = arg2
  /\ WellFormed(ServiceRecords[2]) /\ Words(ServiceRecords[2])[2] = arg2
  /\ Words(ServiceRecords[1])[1] # Words(ServiceRecords[2])[1]
  /\ Words(ServiceRecords[1])[3] # Words(ServiceRecords[2])[3]
  /\ out.err = NoError

\* C7 (as stated): a record reached before any match that is not exactly
\* "<name> <protocol> <integer>" (missing field, non-numeric port or extra
\* fields) makes the whole call fail.
C7_MalformedAborts ==
  \A i \in 1..Len(ServiceRecords) :
    (/\ ServiceResolved
     /\ ~WellFormed(ServiceRecords[i])
     /\ \A j \in 1..(i-1) : WellFormed(ServiceRecords[j]) /\ Words(ServiceRecords[j])[2] # arg2)
    => out.err # NoError
\* C7 (amended): a record reached before any match with fewer than three
\* fields, or whose third field does not begin with an optionally signed
\* decimal integer, makes the whole call fail, even if a later record matches;
\* extra fields or text after the port's digits do not cause a failure.
C7_UnscannableAborts ==
  \A i \in 1..Len(ServiceRecords) :
    (/\ ServiceResolved
     /\ \A j \in 1..(i-1) : Scannable(ServiceRecords[j]) /\ Words(ServiceRecords[j])[2] # arg2)
    => /\ ~Scannable(ServiceRecords[i]) => (out.err # NoError /\ out.result = ZeroEntry)
       /\ (Scannable(ServiceRecords[i]) /\ Words(ServiceRecords[i])[2] = arg2) => out.err = NoError
C7_Witness ==
  /\ ServiceResolved /\ Len(ServiceRecords) = 2
  /\ ~Scannable(ServiceRecords[1])
  /\ Scannable(ServiceRecords[2]) /\ Words(ServiceRecords[2])[2] = arg2
  /\ out.err # NoError

\* C8: when every record is well-formed with another protocol (or there are
\* none), GetServiceByName returns the zero ServiceEntry and a nil error.
C8_NoMatchZeroEntry ==
  (/\ ServiceResolved
   /\ \A i \in 1..Len(ServiceRecords) :
        WellFormed(ServiceRecords[i]) /\ Words(ServiceRecords[i])[2] # arg2)
  => out.err = NoError /\ out.result = ZeroEntry
C8_Witness ==
  /\ ServiceResolved /\ Len(ServiceRecords) = 2
  /\ \A i \in 1..2 : WellFormed(ServiceRecords[i]) /\ Words(ServiceRecords[i])[2] # arg2
  /\ out.err = NoError

====
